---- MODULE Spec2Model ----
(***************************************************************************)
(* Formula input: the tag store (src/src/store/formulaStore.ts) and the    *)
(* FormulaInput component's handlers (src/src/services/                    *)
(* autocompleteService.ts).                                                *)
(*                                                                         *)
(* Strings are sequences of one-character strings, so that the regular     *)
(* expressions, Number() and toString() of the source are computed and not *)
(* assumed.  JavaScript numbers are modelled as normalised fractions       *)
(* [n, d] (d > 0) plus NaN; rounding, Infinity and the sign of zero are    *)
(* outside the model.                                                      *)
(***************************************************************************)
EXTENDS Integers, Sequences, FiniteSets, TLC

VARIABLES
    tags,          \* FormulaState.tags
    currentInput,  \* FormulaState.currentInput
    searchTerm,    \* FormulaInput: useState("")
    showDropdown,  \* FormulaInput: useState(false)
    now,           \* the value Date.now() returns, in milliseconds
    total,         \* what the last render computed with calculateTotal()
    ev,            \* the last event handled: its kind and the branch taken
    events,        \* how many events have been handled
    queryCache     \* useQuery: the data held by query key, and the fetches in flight

vars == <<tags, currentInput, searchTerm, showDropdown, now, total, ev, events, queryCache>>

-----------------------------------------------------------------------------
(* Numbers *)

Abs(x) == IF x < 0 THEN -x ELSE x

RECURSIVE GCD(_, _)
GCD(a, b) == IF b = 0 THEN a ELSE GCD(b, a % b)

\* a fraction in lowest terms with a positive denominator
Norm(n, d) ==
    LET s == IF d < 0 THEN -1 ELSE 1
        g == GCD(Abs(n), Abs(d))
    IN  [n |-> (s * n) \div g, d |-> (s * d) \div g]

Num(k) == [n |-> k, d |-> 1]
Zero == Num(0)
NaN == [nan |-> TRUE]
Undefined == [undef |-> TRUE]
Null == [null |-> TRUE]

IsNaN(x) == x = NaN

Plus(a, b)  == IF IsNaN(a) \/ IsNaN(b) THEN NaN ELSE Norm(a.n * b.d + b.n * a.d, a.d * b.d)
Minus(a, b) == IF IsNaN(a) \/ IsNaN(b) THEN NaN ELSE Norm(a.n * b.d - b.n * a.d, a.d * b.d)
Times(a, b) == IF IsNaN(a) \/ IsNaN(b) THEN NaN ELSE Norm(a.n * b.n, a.d * b.d)
\* a / b for b that is not zero
Over(a, b)  == IF IsNaN(a) \/ IsNaN(b) THEN NaN ELSE Norm(a.n * b.d, a.d * b.n)
Neg(a)      == IF IsNaN(a) THEN NaN ELSE [n |-> -a.n, d |-> a.d]

RECURSIVE Pow(_, _)
Pow(b, e) == IF e = 0 THEN 1 ELSE b * Pow(b, e - 1)

\* x ?? y
Coalesce(x, y) == IF x = Undefined \/ x = Null THEN y ELSE x

-----------------------------------------------------------------------------
(* Strings *)

DigitChars == {"0", "1", "2", "3", "4", "5", "6", "7", "8", "9"}
DigitSeq == <<"0", "1", "2", "3", "4", "5", "6", "7", "8", "9">>

DigitVal(c) == (CHOOSE i \in 1..10 : DigitSeq[i] = c) - 1

\* /^\d+$/.test(s)
IsDigits(s) == Len(s) > 0 /\ \A i \in 1..Len(s) : s[i] \in DigitChars

RECURSIVE DigitsVal(_)
DigitsVal(s) ==
    IF s = <<>> THEN 0
    ELSE DigitsVal(SubSeq(s, 1, Len(s) - 1)) * 10 + DigitVal(s[Len(s)])

RECURSIVE NatStr(_)
NatStr(k) == IF k < 10 THEN <<DigitSeq[k + 1]>> ELSE NatStr(k \div 10) \o <<DigitSeq[(k % 10) + 1]>>

\* (k).toString() for an integer k
toString(k) == IF k < 0 THEN <<"-">> \o NatStr(-k) ELSE NatStr(k)

\* Number(s), for strings of digits, signs, letters, operators and parentheses
Number(s) ==
    IF s = <<>> THEN Zero
    ELSE IF IsDigits(s) THEN Num(DigitsVal(s))
    ELSE IF s[1] = "-" /\ IsDigits(Tail(s)) THEN Num(-DigitsVal(Tail(s)))
    ELSE IF s[1] = "+" /\ IsDigits(Tail(s)) THEN Num(DigitsVal(Tail(s)))
    ELSE NaN

-----------------------------------------------------------------------------
(* The store: src/src/store/formulaStore.ts *)

OPERANDS == {<<"+">>, <<"-">>, <<"*">>, <<"/">>}
PARENTHESES == {<<"(">>, <<")">>}

Tag(id, text, type, value, baseValue) ==
    [id |-> id, text |-> text, type |-> type, value |-> value, baseValue |-> baseValue]

Last(s) == s[Len(s)]
Front(s) == SubSeq(s, 1, Len(s) - 1)

addTag_noReplace(ts, tag) == Append(ts, tag)

addTag(ts, tag) ==
    LET newTags ==
            IF tag.type = "operand" /\ Len(ts) > 0 /\ Last(ts).type = "operand"
            THEN Front(ts)
            ELSE ts
    IN  Append(newTags, tag)

removeTag(ts, id) == SelectSeq(ts, LAMBDA tag : tag.id # id)

clearTags == <<>>

updateTag_cumulative(tag, m) ==
    IF tag.value # Undefined
    THEN [tag EXCEPT !.value = Times(tag.value, Coalesce(m, Num(1)))]
    ELSE tag

updateTag_movesBase(tag, m) ==
    IF tag.type = "number"
    THEN [tag EXCEPT !.baseValue = Times(Number(tag.text), Coalesce(m, Num(1))),
                     !.value = Times(Number(tag.text), Coalesce(m, Num(1)))]
    ELSE IF tag.value # Undefined
    THEN [tag EXCEPT !.baseValue = Times(Coalesce(tag.baseValue, tag.value), Coalesce(m, Num(1))),
                     !.value = Times(Coalesce(tag.baseValue, tag.value), Coalesce(m, Num(1)))]
    ELSE tag

\* the body of the map in updateTagValue, for a tag whose id matches
updateTag(tag, m) ==
    IF tag.type = "number"
    THEN [tag EXCEPT !.value = Times(Number(tag.text), Coalesce(m, Num(1)))]
    ELSE IF tag.value # Undefined
    THEN [tag EXCEPT !.baseValue = Coalesce(tag.baseValue, tag.value),
                     !.value = Times(Coalesce(tag.baseValue, tag.value), Coalesce(m, Num(1)))]
    ELSE tag

updateTagValue(ts, id, m) ==
    [i \in 1..Len(ts) |-> IF ts[i].id # id THEN ts[i] ELSE updateTag(ts[i], m)]

calculateValue_zeroOnDivZero(a, b, operator) ==
    CASE operator = <<"+">> -> Plus(a, b)
      [] operator = <<"-">> -> Minus(a, b)
      [] operator = <<"*">> -> Times(a, b)
      [] operator = <<"/">> -> IF b # Zero THEN Over(a, b) ELSE Zero
      [] OTHER -> b

calculateValue_swapped(a, b, operator) ==
    CASE operator = <<"+">> -> Plus(a, b)
      [] operator = <<"-">> -> Minus(b, a)
      [] operator = <<"*">> -> Times(a, b)
      [] operator = <<"/">> -> IF b # Zero THEN Over(a, b) ELSE a
      [] OTHER -> b

calculateValue(a, b, operator) ==
    CASE operator = <<"+">> -> Plus(a, b)
      [] operator = <<"-">> -> Minus(a, b)
      [] operator = <<"*">> -> Times(a, b)
      [] operator = <<"/">> -> IF b # Zero THEN Over(a, b) ELSE a
      [] OTHER -> b

\* stack.pop() ?? dflt : the popped value and the stack left
PopOr(stack, dflt) ==
    IF stack = <<>> THEN [v |-> dflt, rest |-> <<>>]
    ELSE [v |-> Last(stack), rest |-> Front(stack)]

\* the registers of calculateTotal before the loop
EvalStart == [stack |-> <<Zero>>, opStack |-> <<<<"+">>>>, currentOp |-> <<"+">>]

CloseParen_currentOp(st) ==
    LET p1 == PopOr(st.stack, Zero)
        po == PopOr(st.opStack, <<"+">>)
        p2 == PopOr(p1.rest, Zero)
    IN  [st EXCEPT !.stack = Append(p2.rest, calculateValue(p2.v, p1.v, st.currentOp)),
                   !.opStack = po.rest]

\* the ")" branch of the loop
CloseParen(st) ==
    LET p1 == PopOr(st.stack, Zero)
        po == PopOr(st.opStack, <<"+">>)
        p2 == PopOr(p1.rest, Zero)
    IN  [st EXCEPT !.stack = Append(p2.rest, calculateValue(p2.v, p1.v, po.v)),
                   !.opStack = po.rest]

\* one iteration of the loop of calculateTotal
EvalStep(st, tag) ==
    IF tag.type = "operand" THEN [st EXCEPT !.currentOp = tag.text]
    ELSE IF tag.type = "parenthesis" THEN
        IF tag.text = <<"(">> THEN
            [stack |-> Append(st.stack, Zero),
             opStack |-> Append(st.opStack, st.currentOp),
             currentOp |-> <<"+">>]
        ELSE IF tag.text = <<")">> THEN CloseParen(st)
        ELSE st
    ELSE IF tag.type = "number" \/ tag.value # Undefined THEN
        LET value == IF tag.type = "number"
                     THEN Coalesce(tag.value, Number(tag.text))
                     ELSE Coalesce(tag.value, Zero)
            p == PopOr(st.stack, Zero)
        IN  [st EXCEPT !.stack = Append(p.rest, calculateValue(p.v, value, st.currentOp))]
    ELSE st

RECURSIVE EvalLoop(_, _)
EvalLoop(st, ts) == IF ts = <<>> THEN st ELSE EvalLoop(EvalStep(st, Head(ts)), Tail(ts))

OnlyOperandsAndParens(ts) ==
    \A i \in 1..Len(ts) : ts[i].type = "operand" \/ ts[i].type = "parenthesis"

tagsToProcess_alwaysTrim(ts) == Front(ts)

tagsToProcess(ts) ==
    IF Len(ts) > 0 /\ Last(ts).type = "operand" THEN Front(ts) ELSE ts

calculateTotal_bareReturn(ts) ==
    IF Len(ts) = 0 \/ OnlyOperandsAndParens(ts) THEN Undefined
    ELSE LET st == EvalLoop(EvalStart, tagsToProcess(ts))
         IN  IF st.stack = <<>> THEN Zero ELSE st.stack[1]

calculateTotal_topOfStack(ts) ==
    IF Len(ts) = 0 \/ OnlyOperandsAndParens(ts) THEN Zero
    ELSE LET st == EvalLoop(EvalStart, tagsToProcess(ts))
         IN  IF st.stack = <<>> THEN Zero ELSE Last(st.stack)

calculateTotal(ts) ==
    IF Len(ts) = 0 \/ OnlyOperandsAndParens(ts) THEN Zero
    ELSE LET st == EvalLoop(EvalStart, tagsToProcess(ts))
         IN  IF st.stack = <<>> THEN Zero ELSE st.stack[1]

-----------------------------------------------------------------------------
(* The component: FormulaInput in src/src/services/autocompleteService.ts *)

\* the model follows a session for this many events
MaxEvents == 6

\* what a change event may carry as the new content of the input element
Inputs ==
    { <<>>, <<"+">>, <<"-">>, <<"(">>, <<")">>,
      <<"0">>, <<"2">>, <<"2", "^", "3">>, <<"a">> }

\* what the lookup may answer: AutocompleteResult, value already as text
Suggestions ==
    { [id |-> <<"f">>, name |-> <<"s", "u", "m">>, category |-> "function", value |-> <<"2", "x", "3">>],
      [id |-> <<"v">>, name |-> <<"r", "a", "t", "e">>, category |-> "variable", value |-> <<"4">>] }

\* the x1, x3 and x5 buttons of the menu
Multipliers == {1, 3, 5}

\* Date.now().toString(), when Date.now() returns t
DateId(t) == toString(t)

\* What Date.now() returns in the event being handled.  Two events are taken
\* to be at least a millisecond apart, so every call returns a later time than
\* the call before it (only whether two ids are equal matters, not the times).
Clock == {now + 1}

Event(kind, rule) == [kind |-> kind, rule |-> rule, arg |-> <<>>, pre |-> <<>>]

\* a change event, with the text it carries
ChangeEvent(value, rule) == [kind |-> "change", rule |-> rule, arg |-> value, pre |-> <<>>]

\* a click on an entry of the list, with the suggestion of that entry
SuggestionEvent(suggestion) ==
    [kind |-> "suggestion", rule |-> suggestion.category, arg |-> suggestion, pre |-> <<>>]

\* a call of the store made directly: its argument and the tags it was applied to
StoreCall(kind, arg, pre) == [kind |-> kind, rule |-> "", arg |-> arg, pre |-> pre]

hasValueBeforeOperand_anyTag(ts) == Len(ts) > 0

\* tags.some((tag) => tag.type !== "operand" && tag.type !== "parenthesis")
hasValueBeforeOperand(ts) ==
    \E i \in 1..Len(ts) : ts[i].type # "operand" /\ ts[i].type # "parenthesis"

openAtStartOrAfterOperand_startOnly(ts) == Len(ts) = 0

\* tags.length === 0 || tags[tags.length - 1]?.type === "operand"
openAtStartOrAfterOperand(ts) == Len(ts) = 0 \/ Last(ts).type = "operand"

closeAfterValue_nonEmpty(ts) == Len(ts) > 0

\* tags.length > 0 && tags[tags.length - 1]?.type !== "operand"
closeAfterValue(ts) == Len(ts) > 0 /\ Last(ts).type # "operand"

OperandTag(t, value) == Tag(DateId(t), value, "operand", Undefined, Undefined)

ParenthesisTag(t, value) == Tag(DateId(t), value, "parenthesis", Undefined, Undefined)

NegativeNumberTag_notNegated(t, value) ==
    Tag(DateId(t), toString(DigitsVal(value)), "number", Number(value), Number(value))

\* the tag built for digits typed after a lone minus sign
NegativeNumberTag(t, value) ==
    LET negativeNumber == Neg(Number(value))
    IN  Tag(DateId(t), toString(negativeNumber.n), "number", negativeNumber, negativeNumber)

\* the store's tags after the first statements of handleInputChange
AfterLeadingOperandRemoval(ts) ==
    IF Len(ts) = 1 /\ ts[1].type = "operand" /\ ts[1].text # <<"-">>
    THEN removeTag(ts, ts[1].id)
    ELSE ts

\* currentInput.match(/^(\d+)\^(\d+)$/)
PowerMatch(s) ==
    \E k \in 2..(Len(s) - 1) :
        s[k] = "^" /\ IsDigits(SubSeq(s, 1, k - 1)) /\ IsDigits(SubSeq(s, k + 1, Len(s)))

PowerResult_swapped(s) ==
    LET k == CHOOSE k \in 2..(Len(s) - 1) : s[k] = "^"
    IN  Pow(DigitsVal(SubSeq(s, k + 1, Len(s))), DigitsVal(SubSeq(s, 1, k - 1)))

PowerResult(s) ==
    LET k == CHOOSE k \in 2..(Len(s) - 1) : s[k] = "^"
    IN  Pow(DigitsVal(SubSeq(s, 1, k - 1)), DigitsVal(SubSeq(s, k + 1, Len(s))))

PowerTag(t, s) ==
    LET result == PowerResult(s)
    IN  Tag(DateId(t), toString(result), "number", Num(result), Num(result))

NumberTag(t, s) == Tag(DateId(t), s, "number", Number(s), Number(s))

\* expr.replace(/x/g, "*")
sanitize(expr) == [i \in 1..Len(expr) |-> IF expr[i] = "x" THEN "*" ELSE expr[i]]

\* /^[\d\s+\-*/().]+$/.test(s)
IsArithmeticText(s) ==
    Len(s) > 0 /\
    \A i \in 1..Len(s) : s[i] \in DigitChars \cup {" ", "+", "-", "*", "/", "(", ")", "."}

\* the index of the last character of s that is in cs, 0 if there is none
LastIndexIn(s, cs) ==
    LET hits == {i \in 1..Len(s) : s[i] \in cs}
    IN  IF hits = {} THEN 0 ELSE CHOOSE i \in hits : \A j \in hits : j <= i

\* A JavaScript product of literals: digits ((* | /) digits)*, left to right.
\* [ok |-> FALSE] stands for the SyntaxError of any other text.
RECURSIVE JsTerm(_)
JsTerm(s) ==
    LET k == LastIndexIn(s, {"*", "/"})
    IN  IF k = 0
        THEN IF IsDigits(s) THEN [ok |-> TRUE, v |-> Num(DigitsVal(s))] ELSE [ok |-> FALSE, v |-> NaN]
        ELSE LET l == JsTerm(SubSeq(s, 1, k - 1))
                 r == SubSeq(s, k + 1, Len(s))
             IN  IF ~l.ok \/ ~IsDigits(r) THEN [ok |-> FALSE, v |-> NaN]
                 ELSE IF s[k] = "*" THEN [ok |-> TRUE, v |-> Times(l.v, Num(DigitsVal(r)))]
                 ELSE IF DigitsVal(r) = 0 THEN [ok |-> TRUE, v |-> NaN]
                 ELSE [ok |-> TRUE, v |-> Over(l.v, Num(DigitsVal(r)))]

\* A JavaScript sum of products, with JavaScript's precedence: what
\* Function(`'use strict'; return (${s})`)() returns for text of the shape
\* digits (operator digits)*.  Division by zero (Infinity in JavaScript) is
\* outside the model; the suggestions drawn do not contain it.
RECURSIVE JsSum(_)
JsSum(s) ==
    LET k == LastIndexIn(s, {"+", "-"})
    IN  IF k = 0 THEN JsTerm(s)
        ELSE LET l == JsSum(SubSeq(s, 1, k - 1))
                 r == JsTerm(SubSeq(s, k + 1, Len(s)))
             IN  IF ~l.ok \/ ~r.ok THEN [ok |-> FALSE, v |-> NaN]
                 ELSE IF s[k] = "+" THEN [ok |-> TRUE, v |-> Plus(l.v, r.v)]
                 ELSE [ok |-> TRUE, v |-> Minus(l.v, r.v)]

calculateExpression_plainNumber(expr) == Number(expr)

calculateExpression(expr) ==
    LET sanitizedExpr == sanitize(expr)
    IN  IF ~IsArithmeticText(sanitizedExpr) THEN Number(expr)
        ELSE IF JsSum(sanitizedExpr).ok THEN JsSum(sanitizedExpr).v
        ELSE Number(expr)

\* suggestion.value?.toString() || "0"
SuggestionText(value) == IF value = <<>> THEN <<"0">> ELSE value

SuggestionTag(suggestion) ==
    LET calculatedValue == calculateExpression(SuggestionText(suggestion.value))
    IN  Tag(suggestion.id, suggestion.name,
            IF suggestion.category = "function" THEN "function" ELSE "variable",
            calculatedValue, calculatedValue)

\* the entry the render puts first in the list when the buffer is a number
numberSuggestion(t) ==
    [id |-> DateId(t), name |-> currentInput, category |-> "number",
     value |-> toString(DigitsVal(currentInput))]

\* useQuery's cache before any lookup: no data, nothing in flight
NoQueries == [data |-> {}, fetching |-> {}]

-----------------------------------------------------------------------------
(* Events *)

Init ==
    /\ tags = <<>>
    /\ currentInput = <<>>
    /\ searchTerm = <<>>
    /\ showDropdown = FALSE
    /\ now = 1
    /\ total = calculateTotal(<<>>)
    /\ ev = Event("init", "")
    /\ events = 0
    /\ queryCache = NoQueries

\* every event is followed by a render, which computes the total anew
Handled ==
    /\ events < MaxEvents
    /\ events' = events + 1
    /\ total' = calculateTotal(tags')

\* handleInputChange; `tags` is the render's snapshot, the store is updated call by call
HandleInputChange(t, value) ==
    LET store1 == AfterLeadingOperandRemoval(tags)
    IN
    /\ value # currentInput
    /\ IF value \in OPERANDS THEN
          IF value = <<"-">> /\ Len(tags) = 0 THEN
              /\ tags' = addTag(store1, OperandTag(t, value))
              /\ currentInput' = <<>>
              /\ ev' = ChangeEvent(value, "minusAtStart")
          ELSE IF hasValueBeforeOperand(tags) THEN
              /\ tags' = addTag(store1, OperandTag(t, value))
              /\ currentInput' = <<>>
              /\ ev' = ChangeEvent(value, "operand")
          ELSE
              /\ tags' = store1
              /\ currentInput' = value
              /\ ev' = ChangeEvent(value, "operandRejected")
       ELSE IF IsDigits(value) /\ Len(tags) = 1 /\ tags[1].text = <<"-">> THEN
          /\ tags' = addTag(removeTag(store1, tags[1].id), NegativeNumberTag(t, value))
          /\ currentInput' = <<>>
          /\ ev' = ChangeEvent(value, "collapse")
       ELSE IF value \in PARENTHESES THEN
          IF value = <<"(">> /\ openAtStartOrAfterOperand(tags) THEN
              /\ tags' = addTag(store1, ParenthesisTag(t, value))
              /\ currentInput' = <<>>
              /\ ev' = ChangeEvent(value, "open")
          ELSE IF value = <<")">> /\ closeAfterValue(tags) THEN
              /\ tags' = addTag(store1, ParenthesisTag(t, value))
              /\ currentInput' = <<>>
              /\ ev' = ChangeEvent(value, "close")
          ELSE
              /\ tags' = store1
              /\ currentInput' = value
              /\ ev' = ChangeEvent(value, "parenRejected")
       ELSE
          /\ tags' = store1
          /\ currentInput' = value
          /\ ev' = ChangeEvent(value, "search")
    /\ searchTerm' = IF ev'.rule = "search" THEN value ELSE searchTerm
    /\ showDropdown' = IF ev'.rule = "search" THEN TRUE ELSE showDropdown
    /\ now' = IF ev'.rule \in {"minusAtStart", "operand", "collapse", "open", "close"} THEN t ELSE now
    /\ Handled

\* In this specification the lookup is taken to have answered by the time an
\* entry of the list is clicked; its cache is followed in LookupSpec below.
InputChange ==
    /\ \E t \in Clock, value \in Inputs : HandleInputChange(t, value)
    /\ UNCHANGED queryCache

\* handleInputKeyDown, key "Enter"
HandleEnter(t) ==
    /\ IF currentInput = <<>> THEN
          /\ ev' = Event("enter", "empty")
          /\ UNCHANGED <<tags, currentInput, showDropdown>>
       ELSE IF PowerMatch(currentInput) THEN
          /\ tags' = addTag(tags, PowerTag(t, currentInput))
          /\ currentInput' = <<>>
          /\ showDropdown' = FALSE
          /\ ev' = Event("enter", "power")
       ELSE IF IsDigits(currentInput) THEN
          /\ tags' = addTag(tags, NumberTag(t, currentInput))
          /\ currentInput' = <<>>
          /\ showDropdown' = FALSE
          /\ ev' = Event("enter", "number")
       ELSE
          /\ ev' = Event("enter", "noTag")
          /\ UNCHANGED <<tags, currentInput, showDropdown>>
    /\ now' = IF ev'.rule \in {"power", "number"} THEN t ELSE now
    /\ Handled
    /\ UNCHANGED searchTerm

KeyDownEnter ==
    /\ \E t \in Clock : HandleEnter(t)
    /\ UNCHANGED queryCache

\* handleInputKeyDown, key "Backspace"
KeyDownBackspace ==
    /\ IF currentInput = <<>> /\ Len(tags) > 0 THEN
          /\ tags' = removeTag(tags, Last(tags).id)
          /\ ev' = Event("backspace", "removeLast")
       ELSE
          /\ tags' = tags
          /\ ev' = Event("backspace", "default")
    /\ Handled
    /\ UNCHANGED <<currentInput, searchTerm, showDropdown, now, queryCache>>

\* handleSuggestionClick
HandleSuggestionClick(suggestion) ==
    /\ tags' = addTag(tags, SuggestionTag(suggestion))
    /\ currentInput' = <<>>
    /\ searchTerm' = <<>>
    /\ showDropdown' = FALSE
    /\ ev' = SuggestionEvent(suggestion)
    /\ Handled

\* a click on an entry of the list: the lookup's entries are there once it has
\* answered the current search term, the number entry whenever the buffer is digits
SuggestionClick ==
    /\ showDropdown
    /\ \/ /\ searchTerm # <<>>
          /\ \E suggestion \in Suggestions : HandleSuggestionClick(suggestion)
          /\ UNCHANGED now
       \/ /\ IsDigits(currentInput)
          /\ \E t \in Clock : HandleSuggestionClick(numberSuggestion(t)) /\ now' = t
    /\ UNCHANGED queryCache

\* A button (x1, x3, x5) of the multiplier menu.  handleTagClick opens the menu
\* under any tag that has a value (activeTagId, which nothing else reads) and the
\* button closes it again, so every such tag can be given every multiplier.
MultiplierClick ==
    \E i \in 1..Len(tags), m \in Multipliers :
        /\ tags[i].value # Undefined
        /\ tags' = updateTagValue(tags, tags[i].id, Num(m))
        /\ ev' = Event("multiplier", "")
        /\ Handled
        /\ UNCHANGED <<currentInput, searchTerm, showDropdown, now, queryCache>>

\* the remove button of a tag
RemoveClick ==
    \E i \in 1..Len(tags) :
        /\ tags' = removeTag(tags, tags[i].id)
        /\ ev' = Event("remove", "")
        /\ Handled
        /\ UNCHANGED <<currentInput, searchTerm, showDropdown, now, queryCache>>

\* the store's clearTags
ClearTags ==
    /\ tags' = clearTags
    /\ ev' = Event("clear", "")
    /\ Handled
    /\ UNCHANGED <<currentInput, searchTerm, showDropdown, now, queryCache>>

\* handleClickOutside, which acts while the list is mounted
ClickOutside ==
    /\ showDropdown
    /\ searchTerm # <<>> \/ IsDigits(currentInput)
    /\ showDropdown' = FALSE
    /\ ev' = Event("clickOutside", "")
    /\ UNCHANGED <<tags, currentInput, searchTerm, now, queryCache>>
    /\ Handled

Next ==
    \/ InputChange
    \/ KeyDownEnter
    \/ KeyDownBackspace
    \/ SuggestionClick
    \/ MultiplierClick
    \/ RemoveClick
    \/ ClearTags
    \/ ClickOutside

Spec == Init /\ [][Next]_vars

-----------------------------------------------------------------------------
(* The store's functions on their own.  Any sequence of tags can be put in *)
(* the store with addTag and removeTag, so these specifications start from *)
(* a store that holds an arbitrary short sequence and apply one function.  *)

\* the component's state, which the store's functions neither read nor write
ComponentIdle ==
    /\ currentInput = <<>>
    /\ searchTerm = <<>>
    /\ showDropdown = FALSE
    /\ now = 1
    /\ events = 0
    /\ queryCache = NoQueries

\* all sequences over S of length lo to hi
SeqsOf(S, lo, hi) == UNION {[1..n -> S] : n \in lo..hi}

Operand(c) == Tag(<<"t">>, <<c>>, "operand", Undefined, Undefined)
Paren(c) == Tag(<<"t">>, <<c>>, "parenthesis", Undefined, Undefined)
Numeral(k) == Tag(<<"t">>, toString(k), "number", Num(k), Num(k))
Valued(type, name, v, b) == Tag(<<"t">>, name, type, v, b)

(* addTag *)

MaxStoreLen == 3

StoreTags ==
    { Operand("+"), Operand("*"), Paren("("), Numeral(2),
      Valued("variable", <<"r", "a", "t", "e">>, Num(4), Num(4)) }

StoreInit ==
    /\ tags \in SeqsOf(StoreTags, 0, MaxStoreLen)
    /\ ComponentIdle
    /\ total = calculateTotal(tags)
    /\ ev = StoreCall("load", <<>>, <<>>)

StoreAddTag ==
    \E tag \in StoreTags :
        /\ ev.kind = "load"
        /\ tags' = addTag(tags, tag)
        /\ total' = calculateTotal(tags')
        /\ ev' = StoreCall("addTag", tag, tags)
        /\ UNCHANGED <<currentInput, searchTerm, showDropdown, now, events, queryCache>>

StoreNext == StoreAddTag

StoreSpec == StoreInit /\ [][StoreNext]_vars

(* calculateTotal *)

MaxEvalLen == 5

EvalTags ==
    { Operand("+"), Operand("-"), Operand("*"), Operand("/"),
      Paren("("), Paren(")"),
      Numeral(0), Numeral(2), Numeral(3) }

\* tags the component does not build but the store accepts: a number tag with
\* no value (as in the component's tests), a tag with no value, a NaN value
OddTags ==
    { Operand("/"), Paren("("), Paren(")"),
      Tag(<<"t">>, <<"5">>, "number", Undefined, Undefined),
      Valued("function", <<"s", "u", "m">>, Undefined, Undefined),
      Valued("variable", <<"n", "o", "t", "e">>, NaN, NaN),
      Valued("variable", <<"r", "a", "t", "e">>, Over(Num(1), Num(2)), Over(Num(1), Num(2))) }

\* the sequences the specification of the evaluator names
Example_2Plus3Times4 == <<Numeral(2), Operand("+"), Numeral(3), Operand("*"), Numeral(4)>>
Example_5Over0 == <<Numeral(5), Operand("/"), Numeral(0)>>
Example_GroupFirst ==
    <<Paren("("), Numeral(2), Operand("+"), Numeral(3), Paren(")"), Operand("*"), Numeral(4)>>
Example_GroupLast ==
    <<Numeral(4), Operand("*"), Paren("("), Numeral(2), Operand("+"), Numeral(3), Paren(")")>>
Example_Nested ==
    <<Numeral(2), Operand("*"), Paren("("), Numeral(3), Operand("-"), Paren("("),
      Numeral(4), Operand("/"), Numeral(2), Paren(")"), Paren(")")>>
Example_Unclosed == <<Numeral(2), Operand("+"), Paren("("), Numeral(3)>>

Examples ==
    { Example_2Plus3Times4, Example_5Over0, Example_GroupFirst, Example_GroupLast,
      Example_Nested, Example_Unclosed }

EvalInit ==
    /\ tags \in SeqsOf(EvalTags, 0, MaxEvalLen) \cup SeqsOf(OddTags, 1, 4) \cup Examples
    /\ ComponentIdle
    /\ total = Undefined
    /\ ev = StoreCall("load", <<>>, <<>>)

EvalCalculateTotal ==
    /\ ev.kind = "load"
    /\ total' = calculateTotal(tags)
    /\ ev' = StoreCall("calculateTotal", <<>>, tags)
    /\ UNCHANGED <<tags, currentInput, searchTerm, showDropdown, now, events, queryCache>>

EvalNext == EvalCalculateTotal

EvalSpec == EvalInit /\ [][EvalNext]_vars

(* updateTagValue *)

MaxOverlays == 3

Ided(id, tag) == [tag EXCEPT !.id = id]

\* tags as the component builds them (value and baseValue equal) and as the
\* store accepts them (no baseValue, a number tag with no value, no value at all)
OverlayTags ==
    { Numeral(2),
      Tag(<<"t">>, <<"-", "3">>, "number", Num(-3), Num(-3)),
      Tag(<<"t">>, <<"5">>, "number", Undefined, Undefined),
      Valued("variable", <<"r", "a", "t", "e">>, Num(10), Num(10)),
      Valued("variable", <<"r", "a", "t", "e">>, Num(4), Undefined),
      Valued("function", <<"s", "u", "m">>, Num(6), Num(6)),
      Valued("variable", <<"n", "o", "t", "e">>, NaN, NaN),
      Operand("+") }

OverlayIds == {<<"a">>, <<"b">>}

OverlayInit ==
    /\ \E ts \in SeqsOf(OverlayTags, 1, 2), ids \in SeqsOf(OverlayIds, 2, 2) :
           tags = [i \in 1..Len(ts) |-> Ided(ids[i], ts[i])]
    /\ ComponentIdle
    /\ total = calculateTotal(tags)
    /\ ev = StoreCall("load", <<>>, tags)

\* ev.arg is the list of the updateTagValue calls made, ev.pre the tags before them
OverlayUpdateTagValue ==
    \E id \in OverlayIds, m \in Multipliers :
        /\ Len(ev.arg) < MaxOverlays
        /\ tags' = updateTagValue(tags, id, Num(m))
        /\ total' = calculateTotal(tags')
        /\ ev' = StoreCall("updateTagValue", Append(ev.arg, [id |-> id, m |-> m]), ev.pre)
        /\ UNCHANGED <<currentInput, searchTerm, showDropdown, now, events, queryCache>>

OverlayNext == OverlayUpdateTagValue

OverlaySpec == OverlayInit /\ [][OverlayNext]_vars

-----------------------------------------------------------------------------
(* Properties *)

IsOperand(tag) == tag.type = "operand"

\* C1: in every reachable state no two adjacent tags are both operands.
C1_NoAdjacentOperands ==
    \A i \in 1..(Len(tags) - 1) : ~(IsOperand(tags[i]) /\ IsOperand(tags[i + 1]))

\* C2: in every reachable state the tags have pairwise distinct ids.
C2_DistinctIds ==
    \A i, j \in 1..Len(tags) : i # j => tags[i].id # tags[j].id

\* C3: addTag of an operand onto a sequence that ends with an operand gives a
\* sequence of the same length that ends with the new operand, the tags before
\* it unchanged; in every other case addTag gives the old sequence followed by
\* the new tag.
C3_AddTagReplacesOrAppends ==
    ev.kind = "addTag" =>
        LET old == ev.pre
            tag == ev.arg
        IN  IF Len(old) > 0 /\ IsOperand(old[Len(old)]) /\ IsOperand(tag)
            THEN /\ Len(tags) = Len(old)
                 /\ tags[Len(tags)] = tag
                 /\ \A i \in 1..(Len(old) - 1) : tags[i] = old[i]
            ELSE /\ Len(tags) = Len(old) + 1
                 /\ tags = old \o <<tag>>

C3_Witness ==
    /\ ev.kind = "addTag"
    /\ Len(ev.pre) = 3
    /\ ev.pre[3].text = <<"+">> /\ IsOperand(ev.pre[3])
    /\ ev.arg.text = <<"*">> /\ IsOperand(ev.arg)
    /\ Len(tags) = 3 /\ tags[3].text = <<"*">>

\* the reduction algebra as the specification of the evaluator states it
Combine(a, b, op) ==
    IF op = <<"+">> THEN Plus(a, b)
    ELSE IF op = <<"-">> THEN Minus(a, b)
    ELSE IF op = <<"*">> THEN Times(a, b)
    ELSE IF op = <<"/">> THEN (IF b = Zero THEN a ELSE Over(a, b))
    ELSE b

IsValueBearing(tag) ==
    tag.type = "number" \/ (tag.type \in {"function", "variable"} /\ tag.value # Undefined)

ValueOf(tag) == IF tag.value # Undefined THEN tag.value ELSE Number(tag.text)

\* v0 op1 v1 ... opn vn
Alternating(ts) ==
    /\ Len(ts) % 2 = 1
    /\ \A i \in 1..Len(ts) :
           IF i % 2 = 1 THEN IsValueBearing(ts[i]) ELSE IsOperand(ts[i])

\* (((v0 op1 v1) op2 v2) ... ) up to the k-th tag, k odd
RECURSIVE LeftFold(_, _)
LeftFold(ts, k) ==
    IF k = 1 THEN ValueOf(ts[1])
    ELSE Combine(LeftFold(ts, k - 2), ValueOf(ts[k]), ts[k - 1].text)

\* C4: for a parenthesis-free sequence v0 op1 v1 ... opn vn, calculateTotal
\* returns the left-to-right fold, all operators of equal strength; 2 + 3 * 4
\* evaluates to 20.
C4_LeftToRightFold ==
    ev.kind = "calculateTotal" =>
        /\ Alternating(tags) => total = LeftFold(tags, Len(tags))
        /\ tags = Example_2Plus3Times4 => total = Num(20)

C4_Witness ==
    /\ ev.kind = "calculateTotal"
    /\ tags = Example_2Plus3Times4
    /\ total = Num(20)

IsOpen(tag) == tag.type = "parenthesis" /\ tag.text = <<"(">>
IsClose(tag) == tag.type = "parenthesis" /\ tag.text = <<")">>

\* the nesting depth after the first k tags
RECURSIVE Depth(_, _)
Depth(ts, k) ==
    IF k = 0 THEN 0
    ELSE Depth(ts, k - 1) + (IF IsOpen(ts[k]) THEN 1 ELSE IF IsClose(ts[k]) THEN -1 ELSE 0)

Balanced(ts) ==
    /\ \A k \in 1..Len(ts) : Depth(ts, k) >= 0
    /\ Depth(ts, Len(ts)) = 0

\* The reduction by groups, read from the i-th tag on with acc accumulated and
\* cur the last operand read: a group is reduced on its own from 0 with "+",
\* and its result is combined with what was accumulated before its "(" with
\* the operand that was current there.  Returns the value, the operand
\* register and the index after the group's ")".
RECURSIVE Group(_, _, _, _)
Group(ts, i, acc, cur) ==
    IF i > Len(ts) THEN [val |-> acc, cur |-> cur, next |-> i]
    ELSE IF IsOperand(ts[i]) THEN Group(ts, i + 1, acc, ts[i].text)
    ELSE IF IsClose(ts[i]) THEN [val |-> acc, cur |-> cur, next |-> i + 1]
    ELSE IF IsOpen(ts[i]) THEN
        LET g == Group(ts, i + 1, Zero, <<"+">>)
        IN  Group(ts, g.next, Combine(acc, g.val, cur), g.cur)
    ELSE IF IsValueBearing(ts[i]) THEN Group(ts, i + 1, Combine(acc, ValueOf(ts[i]), cur), cur)
    ELSE Group(ts, i + 1, acc, cur)

GroupEval(ts) == Group(ts, 1, Zero, <<"+">>).val

\* C5: for a sequence with balanced parentheses, calculateTotal reduces each
\* group on its own and combines its result with the value accumulated before
\* the "(" using the operand current at the "("; ( 2 + 3 ) * 4 and
\* 4 * ( 2 + 3 ) evaluate to 20.
C5_GroupsReducedOnTheirOwn ==
    ev.kind = "calculateTotal" =>
        /\ Balanced(tags) => total = GroupEval(tags)
        /\ tags = Example_GroupFirst => total = Num(20)
        /\ tags = Example_GroupLast => total = Num(20)

C5_Witness ==
    /\ ev.kind = "calculateTotal"
    /\ tags = Example_Nested
    /\ Balanced(tags)
    /\ total = Num(2)

\* C6: for a non-empty sequence, calculateTotal of the sequence followed by one
\* more operand tag is calculateTotal of the sequence.
C6_TrailingOperandIgnored ==
    (ev.kind = "calculateTotal" /\ Len(tags) > 0) =>
        \A c \in {"+", "-", "*", "/"} : calculateTotal(Append(tags, Operand(c))) = total

C6_Witness ==
    /\ ev.kind = "calculateTotal"
    /\ Len(tags) = 3
    /\ tags[3].type = "number"
    /\ total = Num(6)
    /\ calculateTotal(Append(tags, Operand("-"))) = Num(6)

\* C7: for the empty sequence and for a sequence of operand and parenthesis
\* tags only, calculateTotal returns 0.
C7_DegenerateIsZero ==
    (ev.kind = "calculateTotal"
        /\ \A i \in 1..Len(tags) : tags[i].type \in {"operand", "parenthesis"})
    => total = Zero

C7_Witness ==
    /\ ev.kind = "calculateTotal"
    /\ Len(tags) = 4
    /\ \A i \in 1..Len(tags) : tags[i].type \in {"operand", "parenthesis"}
    /\ \E i \in 1..Len(tags) : IsOperand(tags[i])
    /\ \E i \in 1..Len(tags) : IsOpen(tags[i])
    /\ total = Zero

\* ts without its i-th and (i+1)-th tags
WithoutPair(ts, i) == SubSeq(ts, 1, i - 1) \o SubSeq(ts, i + 2, Len(ts))

Dividends == {Num(-3), Zero, Num(2), Over(Num(1), Num(2)), NaN}

\* C8: combining a with 0 under "/" yields a, so in v0 op1 v1 ... a "/ 0" leaves
\* the accumulated value as it is and the reduction goes on from it; 5 / 0
\* evaluates to 5.
C8_DivisionByZeroPassesDividend ==
    ev.kind = "calculateTotal" =>
        /\ \A a \in Dividends : calculateValue(a, Zero, <<"/">>) = a
        /\ Alternating(tags) =>
               \A i \in 2..(Len(tags) - 1) :
                   (IsOperand(tags[i]) /\ tags[i].text = <<"/">> /\ ValueOf(tags[i + 1]) = Zero)
                   => total = calculateTotal(WithoutPair(tags, i))
        /\ tags = Example_5Over0 => total = Num(5)

C8_Witness ==
    /\ ev.kind = "calculateTotal"
    /\ tags = <<Numeral(2), Operand("/"), Numeral(0), Operand("+"), Numeral(3)>>
    /\ total = Num(5)

\* the calls of updateTagValue made so far with the id of the i-th tag
CallsOn(i) == SelectSeq(ev.arg, LAMBDA c : c.id = tags[i].id)

\* the base of a tag as it was before any overlay
BaseOf(orig) == IF orig.type = "number" THEN Number(orig.text) ELSE orig.value

\* C9: after updateTagValue with multipliers m1, ..., mn a value-bearing tag's
\* value is base * mn, base being the numeric reading of the text for a number
\* tag and the value before the first overlay for another tag.
C9_OverlaysNotCumulative ==
    \A i \in 1..Len(tags) :
        LET orig == ev.pre[i]
            calls == CallsOn(i)
        IN  IF calls = <<>> \/ ~IsValueBearing(orig)
            THEN tags[i] = orig
            ELSE tags[i].value = Times(BaseOf(orig), Num(calls[Len(calls)].m))

C9_Witness ==
    /\ ev.kind = "updateTagValue"
    /\ ev.arg = <<[id |-> <<"a">>, m |-> 3], [id |-> <<"a">>, m |-> 5]>>
    /\ ev.pre[1].type = "variable" /\ ev.pre[1].baseValue = Num(10) /\ ev.pre[1].id = <<"a">>
    /\ tags[1].value = Num(50)

\* d without its leading zeros
RECURSIVE StripZeros(_)
StripZeros(d) == IF Len(d) > 0 /\ d[1] = "0" THEN StripZeros(Tail(d)) ELSE d

\* the decimal text of the number -d, d a string of digits
NegatedText(d) == IF StripZeros(d) = <<>> THEN <<"0">> ELSE <<"-">> \o StripZeros(d)

IsLoneMinus(ts) == Len(ts) = 1 /\ IsOperand(ts[1]) /\ ts[1].text = <<"-">>

MinusTyped ==
    (tags = <<>> /\ ev'.arg = <<"-">>) =>
        /\ IsLoneMinus(tags')
        /\ tags'[1].value = Undefined
        /\ currentInput' = <<>>

DigitsAfterMinus(text(_)) ==
    (IsLoneMinus(tags) /\ IsDigits(ev'.arg)) =>
        /\ Len(tags') = 1
        /\ tags'[1].type = "number"
        /\ tags'[1].text = text(ev'.arg)
        /\ tags'[1].value = Num(-DigitsVal(ev'.arg))
        /\ tags'[1].baseValue = Num(-DigitsVal(ev'.arg))
        /\ currentInput' = <<>>

MinusThenDigits(d) == <<"-">> \o d

\* C10 as stated: "-" typed into an empty sequence appends one operand tag "-"
\* and clears the buffer; digits d typed when the sequence is that one tag
\* replace it by one number tag with text "-d", value -d and baseValue -d and
\* clear the buffer.
C10_AsStated ==
    [][ev'.kind = "change" => (MinusTyped /\ DigitsAfterMinus(MinusThenDigits))]_vars

\* C10 amended: as stated, but the text of the number tag is the decimal text
\* of the number -d: "-" and d without its leading zeros, and "0" when d is zero.
C10_LeadingMinusCollapse ==
    [][ev'.kind = "change" => (MinusTyped /\ DigitsAfterMinus(NegatedText))]_vars

C10_Witness ==
    /\ ev.kind = "change"
    /\ ev.rule = "collapse"
    /\ ev.arg = <<"2">>
    /\ Len(tags) = 1
    /\ tags[1].text = <<"-", "2">>
    /\ tags[1].value = Num(-2)
    /\ currentInput = <<>>

-----------------------------------------------------------------------------
(* The input rules: what one event does to the tags and the buffer *)

Range(s) == {s[i] : i \in 1..Len(s)}

\* some tag is neither an operand nor a parenthesis
HoldsValue(ts) == \E i \in 1..Len(ts) : ts[i].type \notin {"operand", "parenthesis"}

\* the event has put a new tag of this text and type at the end of the tags
TagAdded(text, type) ==
    /\ Len(tags') > 0
    /\ Last(tags').text = text
    /\ Last(tags').type = type
    /\ Last(tags') \notin Range(tags)

\* the event has put no tag in the store that was not there
NoTagAdded ==
    /\ Len(tags') <= Len(tags)
    /\ \A i \in 1..Len(tags') : tags'[i] \in Range(tags)

BufferChange(value) == ev'.kind = "change" /\ ev'.arg = value

\* C11: a buffer change to one of + - * / adds an operand tag of that text
\* when the tags hold a tag that is neither operand nor parenthesis, or when
\* it is "-" and there are no tags; in every other case it adds no tag.
C11_OperandNeedsValue ==
    [][\A value \in OPERANDS :
          BufferChange(value) =>
              IF HoldsValue(tags) \/ (value = <<"-">> /\ tags = <<>>)
              THEN TagAdded(value, "operand")
              ELSE NoTagAdded]_vars

C11_Witness ==
    /\ ev.kind = "change"
    /\ ev.arg = <<"+">>
    /\ Len(tags) = 2
    /\ tags[1].type = "number"
    /\ IsOperand(tags[2]) /\ tags[2].text = <<"+">>
    /\ currentInput = <<>>

\* the grammar's conditions for taking an operand and a parenthesis
OperandAllowed(ts, value) == HoldsValue(ts) \/ (value = <<"-">> /\ ts = <<>>)

OpenAllowed(ts) == ts = <<>> \/ IsOperand(Last(ts))

CloseAllowed(ts) == ts # <<>> /\ ~IsOperand(Last(ts))

\* the event is a keystroke the grammar rejects
RejectedKeystroke ==
    \/ \E value \in OPERANDS : BufferChange(value) /\ ~OperandAllowed(tags, value)
    \/ BufferChange(<<"(">>) /\ ~OpenAllowed(tags)
    \/ BufferChange(<<")">>) /\ ~CloseAllowed(tags)

\* C12: an operand or parenthesis keystroke that the grammar rejects leaves
\* the stored buffer as it was before the event.
C12_RejectedNotEchoed ==
    [][RejectedKeystroke => currentInput' = currentInput]_vars

\* the event is an accepted operand, an accepted parenthesis or the collapse
\* of a lone minus sign with the digits typed after it
AcceptedChange ==
    \/ \E value \in OPERANDS : BufferChange(value) /\ OperandAllowed(tags, value)
    \/ BufferChange(<<"(">>) /\ OpenAllowed(tags)
    \/ BufferChange(<<")">>) /\ CloseAllowed(tags)
    \/ ev'.kind = "change" /\ IsDigits(ev'.arg) /\ IsLoneMinus(tags)

\* C13: a buffer change that is neither an accepted operand, an accepted
\* parenthesis nor a leading-minus collapse (free text that becomes the search
\* query, or a discarded keystroke) leaves the tag sequence as it was.
C13_SearchLeavesTags ==
    [][(ev'.kind = "change" /\ ~AcceptedChange) => tags' = tags]_vars

C16_OperandAfterValue ==
    \/ IsLoneMinus(tags)
    \/ \A i \in 1..Len(tags) :
          IsOperand(tags[i]) => HoldsValue(SubSeq(tags, 1, i - 1))

\* s is base ^ exponent, both strings of digits
IsPowerOf(s, base, exponent) ==
    IsDigits(base) /\ IsDigits(exponent) /\ s = base \o <<"^">> \o exponent

Prefixes(s) == {SubSeq(s, 1, k) : k \in 0..Len(s)}

Suffixes(s) == {SubSeq(s, k, Len(s)) : k \in 1..(Len(s) + 1)}

IsPowerText(s) == \E base \in Prefixes(s), exponent \in Suffixes(s) : IsPowerOf(s, base, exponent)

\* the event has appended exactly one number tag of this value
NumberAppended(v) ==
    /\ Len(tags') = Len(tags) + 1
    /\ Front(tags') = tags
    /\ Last(tags').type = "number"
    /\ Last(tags').value = Num(v)

\* C17: Enter with a non-empty buffer appends exactly one number tag of value
\* base^exponent when the buffer is digits^digits, exactly one number tag of
\* the buffer's numeric reading when it is digits, and clears the buffer in
\* both cases; with any other buffer it leaves the tags and the buffer as
\* they were.
C17_CommitRule ==
    [][(ev'.kind = "enter" /\ currentInput # <<>>) =>
          IF IsPowerText(currentInput)
          THEN /\ \A base \in Prefixes(currentInput), exponent \in Suffixes(currentInput) :
                     IsPowerOf(currentInput, base, exponent) =>
                         NumberAppended(DigitsVal(base) ^ DigitsVal(exponent))
               /\ currentInput' = <<>>
          ELSE IF IsDigits(currentInput)
          THEN NumberAppended(DigitsVal(currentInput)) /\ currentInput' = <<>>
          ELSE tags' = tags /\ currentInput' = currentInput]_vars

C17_Witness ==
    /\ ev.kind = "enter"
    /\ Len(tags) = 3
    /\ tags[1].type = "number" /\ tags[1].value = Num(2)
    /\ IsOperand(tags[2])
    /\ tags[3].type = "number" /\ tags[3].value = Num(8)
    /\ tags[3].text = <<"8">>
    /\ currentInput = <<>>

\* C18: Backspace with an empty buffer and a non-empty sequence removes
\* exactly the last tag (the tags before it stay, the length goes down by
\* one); Backspace with no tags or with a non-empty buffer leaves the tag
\* sequence as it was.
C18_BackspaceRemovesLast ==
    [][ev'.kind = "backspace" =>
          IF currentInput = <<>> /\ tags # <<>>
          THEN Len(tags') = Len(tags) - 1 /\ tags' = Front(tags)
          ELSE tags' = tags]_vars

\* the number a suggestion's value stands for: digits, or a product digits x digits
Contribution(text) ==
    IF IsDigits(text) THEN Num(DigitsVal(text))
    ELSE LET factors == {f \in Prefixes(text) \X Suffixes(text) :
                            /\ IsDigits(f[1]) /\ IsDigits(f[2])
                            /\ text = f[1] \o <<"x">> \o f[2]}
         IN  IF factors = {} THEN NaN
             ELSE LET f == CHOOSE f \in factors : TRUE
                  IN  Num(DigitsVal(f[1]) * DigitsVal(f[2]))

\* C19: accepting a suggestion {id, name, category, value} appends one tag
\* whose text is the name, whose type is function for the category "function"
\* and variable otherwise, and whose value and baseValue are both the number
\* computed from the suggestion's value; the buffer and the pending search
\* query are empty afterwards.
C19_SuggestionAccepted ==
    [][ev'.kind = "suggestion" =>
          LET suggestion == ev'.arg
              tag == Last(tags')
          IN  /\ Len(tags') = Len(tags) + 1
              /\ Front(tags') = tags
              /\ tag.text = suggestion.name
              /\ tag.type = IF suggestion.category = "function" THEN "function" ELSE "variable"
              /\ tag.value = Contribution(suggestion.value)
              /\ tag.baseValue = Contribution(suggestion.value)
              /\ currentInput' = <<>>
              /\ searchTerm' = <<>>]_vars

C19_Witness ==
    /\ ev.kind = "suggestion"
    /\ ev.arg.value = <<"2", "x", "3">>
    /\ Len(tags) = 3
    /\ tags[3].text = <<"s", "u", "m">>
    /\ tags[3].type = "function"
    /\ tags[3].value = Num(6) /\ tags[3].baseValue = Num(6)
    /\ currentInput = <<>> /\ searchTerm = <<>>

-----------------------------------------------------------------------------
(* The suggestion lookup: useAutocomplete, with the fetches it has in flight *)

\* what a change event may carry here: free text, which becomes the search term
LookupInputs == { <<>>, <<"a">>, <<"b">> }

\* what the server answers to a search term
Lookup(term) ==
    IF term = <<"a">>
    THEN <<[id |-> <<"f">>, name |-> <<"s", "u", "m">>, category |-> "function", value |-> <<"2", "x", "3">>]>>
    ELSE IF term = <<"b">>
    THEN <<[id |-> <<"v">>, name |-> <<"r", "a", "t", "e">>, category |-> "variable", value |-> <<"4">>]>>
    ELSE <<>>

\* how a request may end: answered, no connection (fetch rejects), a response
\* that is not ok, or a body that is not JSON (response.json() rejects)
Outcomes == {"ok", "networkError", "notOk", "invalidJson"}

\* process.env.NEXT_PUBLIC_API_URL: not set, or the address of the endpoint
ApiUrls == {<<>>, <<"u">>}

fetchAutocomplete_rethrow(apiUrl, term, outcome) ==
    IF apiUrl = <<>> \/ outcome # "ok" THEN [raised |-> TRUE, data |-> <<>>]
    ELSE [raised |-> FALSE, data |-> Lookup(term)]

\* fetchAutocomplete: what the promise settles to, raised when it rejects
fetchAutocomplete(apiUrl, term, outcome) ==
    IF apiUrl = <<>> THEN [raised |-> TRUE, data |-> <<>>]
    ELSE IF outcome = "ok" THEN [raised |-> FALSE, data |-> Lookup(term)]
    ELSE [raised |-> FALSE, data |-> <<>>]

queryKey_constant(term) == <<"autocomplete">>

\* queryKey: ["autocomplete", searchTerm]
queryKey(term) == <<"autocomplete", term>>

\* enabled: searchTerm.length > 0
enabled(term) == Len(term) > 0

\* the cache's entries for the key of this search term (none or one)
QueryData(cache, term) == {e \in cache.data : e.key = queryKey(term)}

\* const { data: suggestions, isLoading } = useAutocomplete(searchTerm);
\* data is suggestions || [], isSuccess tells whether the query has data
useAutocomplete(cache, term) ==
    [data      |-> IF QueryData(cache, term) = {} THEN <<>>
                   ELSE (CHOOSE e \in QueryData(cache, term) : TRUE).data,
     isSuccess |-> QueryData(cache, term) # {},
     isLoading |-> /\ QueryData(cache, term) = {}
                   /\ \E f \in cache.fetching : f.key = queryKey(term)]

\* The render with a search term: useQuery fetches when the query is enabled
\* and its key is not the key of the render before (or the query was not
\* enabled then), unless a fetch of that key is in flight; queryFn is called
\* with the search term of that render.
Observed(cache, old, new) ==
    IF /\ enabled(new)
       /\ ~enabled(old) \/ queryKey(new) # queryKey(old)
       /\ ~\E f \in cache.fetching : f.key = queryKey(new)
    THEN [cache EXCEPT !.fetching = @ \cup {[key |-> queryKey(new), term |-> new]}]
    ELSE cache

\* the fetch f ends, the API URL being configured: its result is the data of
\* its key from now on
Settled(cache, f, outcome) ==
    [data     |-> {e \in cache.data : e.key # f.key}
                      \cup {[key |-> f.key, term |-> f.term,
                             data |-> fetchAutocomplete(<<"u">>, f.term, outcome).data]},
     fetching |-> cache.fetching \ {f}]

\* the list of suggestions is on the screen
ListShown ==
    LET query == useAutocomplete(queryCache, searchTerm)
    IN  /\ showDropdown
        /\ ~query.isLoading
        /\ Len(query.data) > 0

LookupInputChange ==
    /\ \E t \in Clock, value \in LookupInputs : HandleInputChange(t, value)
    /\ queryCache' = Observed(queryCache, searchTerm, searchTerm')

\* a response of the server arrives, or a request fails: any fetch in flight may be next
LookupResponse ==
    \E f \in queryCache.fetching, outcome \in Outcomes :
        /\ queryCache' = Settled(queryCache, f, outcome)
        /\ ev' = [kind |-> "response", rule |-> outcome, arg |-> f.term, pre |-> <<>>]
        /\ UNCHANGED <<tags, currentInput, searchTerm, showDropdown, now>>
        /\ Handled

\* a click on an entry of the list on the screen
LookupSuggestionClick ==
    /\ ListShown
    /\ LET suggestions == useAutocomplete(queryCache, searchTerm).data
       IN  \E i \in 1..Len(suggestions) : HandleSuggestionClick(suggestions[i])
    /\ queryCache' = Observed(queryCache, searchTerm, searchTerm')
    /\ UNCHANGED now

LookupNext ==
    \/ LookupInputChange
    \/ LookupResponse
    \/ LookupSuggestionClick

LookupSpec == Init /\ [][LookupNext]_vars

\* the list on the screen is the server's answer to the current search term
ShownAreOfCurrentQuery ==
    ListShown => useAutocomplete(queryCache, searchTerm).data = Lookup(searchTerm)

\* C20: whatever the order in which the responses of the lookups in flight
\* arrive, the suggestions on the screen are those of the most recent query,
\* and the arrival of a response changes neither the tags nor the buffer.
C20_LastQueryWins ==
    [][/\ ShownAreOfCurrentQuery'
       /\ ev'.kind = "response" => (tags' = tags /\ currentInput' = currentInput)]_vars

\* the answer to "a" arrives after the query has become "b" and "b" was answered
C20_Witness ==
    /\ ev.kind = "response"
    /\ ev.arg = <<"a">>
    /\ ev.rule = "ok"
    /\ searchTerm = <<"b">>
    /\ queryCache.fetching = {}
    /\ ListShown
    /\ useAutocomplete(queryCache, searchTerm).data = Lookup(<<"b">>)

-----------------------------------------------------------------------------
(* fetchAutocomplete on its own: one call, for any configuration, search *)
(* term and outcome of the request.                                       *)

\* the search terms are the texts over these characters of up to this length
MaxTermLen == 3

FetchTerms == SeqsOf({"a", "b"}, 0, MaxTermLen)

FetchInit ==
    /\ ComponentIdle
    /\ tags = <<>>
    /\ total = calculateTotal(<<>>)
    /\ \E apiUrl \in ApiUrls, term \in FetchTerms, outcome \in Outcomes :
          ev = [kind |-> "call", apiUrl |-> apiUrl, term |-> term, outcome |-> outcome]

FetchCall ==
    /\ ev.kind = "call"
    /\ ev' = [kind |-> "fetchAutocomplete", apiUrl |-> ev.apiUrl, term |-> ev.term,
              outcome |-> ev.outcome,
              result |-> fetchAutocomplete(ev.apiUrl, ev.term, ev.outcome)]
    /\ UNCHANGED <<tags, currentInput, searchTerm, showDropdown, now, total, events, queryCache>>

FetchNext == FetchCall

FetchSpec == FetchInit /\ [][FetchNext]_vars

-----------------------------------------------------------------------------
(* calculateTotal on sequences whose parentheses need not match *)

MaxParenLen == 5

ParenTags ==
    { Operand("+"), Operand("/"), Paren("("), Paren(")"),
      Numeral(0), Numeral(2), Numeral(3) }

ParenInit ==
    /\ tags \in SeqsOf(ParenTags, 0, MaxParenLen) \cup {Example_Unclosed}
    /\ ComponentIdle
    /\ total = Undefined
    /\ ev = StoreCall("load", <<>>, <<>>)

ParenSpec == ParenInit /\ [][EvalNext]_vars

\* how many "(" are open after the first k tags, a ")" with none open closing nothing
RECURSIVE OpenAfter(_, _)
OpenAfter(ts, k) ==
    IF k = 0 THEN 0
    ELSE LET d == OpenAfter(ts, k - 1)
         IN  IF IsOpen(ts[k]) THEN d + 1
             ELSE IF IsClose(ts[k]) /\ d > 0 THEN d - 1
             ELSE d

\* the "(" at i is never closed
Unclosed(ts, i) ==
    /\ IsOpen(ts[i])
    /\ \A k \in i..Len(ts) : OpenAfter(ts, k) > OpenAfter(ts, i - 1)

HasUnclosed(ts) == \E i \in 1..Len(ts) : Unclosed(ts, i)

FirstUnclosed(ts) ==
    CHOOSE i \in 1..Len(ts) : Unclosed(ts, i) /\ \A j \in 1..(i - 1) : ~Unclosed(ts, j)

\* C22: for a sequence with a "(" that is never closed calculateTotal returns
\* the value accumulated before the first such "(" (what it returns for the
\* tags before it: 0 when there are none, the left-to-right fold when they
\* are v0 op1 v1 ... vn), the tags after it adding nothing, and for every
\* sequence, whatever its parentheses, calculateTotal returns a number.
C22_UnclosedGroupIgnored ==
    ev.kind = "calculateTotal" =>
        /\ HasUnclosed(tags) =>
               LET before == SubSeq(tags, 1, FirstUnclosed(tags) - 1)
                   values == IF before # <<>> /\ IsOperand(Last(before))
                             THEN Front(before) ELSE before
               IN  /\ total = calculateTotal(before)
                   /\ before = <<>> => total = Zero
                   /\ Alternating(values) => total = LeftFold(values, Len(values))
        /\ total \notin {Undefined, NaN}

C22_Witness ==
    /\ ev.kind = "calculateTotal"
    /\ tags = Example_Unclosed
    /\ HasUnclosed(tags)
    /\ FirstUnclosed(tags) = 3
    /\ total = Num(2)

-----------------------------------------------------------------------------
(* Values and base values of the tags the component builds *)

\* the number a decimal text stands for: digits, or "-" and digits
Reading(text) ==
    IF text # <<>> /\ text[1] = "-" THEN Num(-DigitsVal(Tail(text))) ELSE Num(DigitsVal(text))

\* operand and parenthesis tags have no value; a tag with a value has it as
\* its base value times 1, 3 or 5, the base value of a number tag being the
\* reading of its text
ValuesFromBase(ts) ==
    \A i \in 1..Len(ts) :
        IF ts[i].type \in {"operand", "parenthesis"}
        THEN ts[i].value = Undefined
        ELSE ts[i].value # Undefined =>
                 /\ ts[i].baseValue # Undefined
                 /\ \E k \in Multipliers : ts[i].value = Times(ts[i].baseValue, Num(k))
                 /\ ts[i].type = "number" => ts[i].baseValue = Reading(ts[i].text)

\* the event leaves the base value of every tag it keeps as it was: a button
\* of the multiplier menu changes values only, any other event leaves the tags
\* it keeps untouched and creates at most the last tag
BaseValuesKept ==
    IF ev'.kind = "multiplier"
    THEN /\ Len(tags') = Len(tags)
         /\ \A i \in 1..Len(tags) :
                /\ tags'[i].baseValue = tags[i].baseValue
                /\ tags'[i].id = tags[i].id
                /\ tags'[i].text = tags[i].text
                /\ tags'[i].type = tags[i].type
    ELSE \A i \in 1..Len(tags') :
             \/ tags'[i] \in Range(tags)
             \/ i = Len(tags') /\ ev'.kind \in {"change", "enter", "suggestion"}

\* C23: in every state reached through the events of the component, operand
\* and parenthesis tags carry no value and every tag that carries a value has
\* value = baseValue * k for a k in {1, 3, 5}, its baseValue being what it was
\* when the tag was created (for a number tag, the reading of its text).
C23_ValueIsBaseTimesMultiplier ==
    [][ValuesFromBase(tags') /\ BaseValuesKept]_vars

C23_Witness ==
    /\ ev.kind = "multiplier"
    /\ Len(tags) = 2
    /\ tags[1].type = "number" /\ tags[1].text = <<"2">>
    /\ tags[1].baseValue = Num(2) /\ tags[1].value = Num(10)
    /\ tags[2].type = "function"
    /\ tags[2].baseValue = Num(6) /\ tags[2].value = Num(18)

====
